---- MODULE Spec2Model ----
(***************************************************************************)
(* The cancellable iterator of kivik and the result set built on it.       *)
(*                                                                         *)
(* A feed (TestFeed, or driver.Rows behind rowsIterator) is wrapped by the *)
(* iterator core (iter); rows adds NextResultSet, Metadata and the scan    *)
(* accessors.  Callers are threads; the feed's blocking fetch runs on a    *)
(* background worker and races against the cancellation scope; a watcher   *)
(* closes the iterator once the scope is cancelled.                        *)
(***************************************************************************)
EXTENDS Integers, Sequences, FiniteSets, TLC

\* Longest driver script / largest TestFeed.max explored.
MaxLen == 3
\* Number of fetches after which an endless feed's fetch blocks for good.
FeedCap == 3
\* TestFeed{max: 10000}: a feed that outlives every run.
EndlessMax == 10000

VARIABLES
    threads,        \* the caller threads of this run
    feedKind,       \* "TestFeed" or "rowsIterator"
    feedMax,        \* TestFeed.max
    script,         \* what driver.Rows.Next returns, call by call, before io.EOF
    closeErr,       \* TestFeed.closeErr / the driver's Close error ("nil" if none)
    hasOnClose,     \* whether newIterator was given an onClose callback
    feedI,          \* TestFeed.i: the number of fetches the feed has served
    feedMeta,       \* rowsIterator.ResultMetadata
    feedCloseCalls, \* how many times the feed's Close ran
    onCloseCalls,   \* how many times onClose ran
    state,          \* iter.state
    lasterr,        \* iter.lasterr
    curVal,         \* iter.curVal, the slot the feed fetches into
    rerr,           \* rows.err
    cancelled,      \* the cancellation scope is done
    watcher,        \* the goroutine awaiting the scope: "waiting" or "done"
    worker,         \* the background fetch: "idle", "running", "done" or "abandoned"
    fetched,        \* the signal of the completed fetch, until Next picks it up
    wlock,          \* the thread holding iter.mu exclusively, 0 if none
    rlocks,         \* the threads holding iter.mu shared
    pc,             \* where each thread is
    implicit,       \* whether the thread's Next is the accessor's implicit one
    call,           \* what each thread's call in flight saw when it began
    last,           \* the last call that returned, with what it returned
    delivered,      \* the values curVal held each time Next returned true
    onlyNext,       \* no caller has called anything but Next (and Err) so far
    badRows,        \* the rows of the feed (by value) whose document does not decode
    errRows,        \* the rows that carry a row-level error (driver.Row.Error)
    noDocRows,      \* the rows that carry no document (driver.Row.Doc is nil)
    dest,           \* what the destination of the bulk scan holds
    sa,             \* the bulk scan (scanAll) in flight
    errIn,          \* the error handed to StatusCode (outermost layer first)
    codeOut,        \* what StatusCode returned for it, -1 before the call
    upd,            \* Client.DBUpdates: the driver it runs on, the call's bookkeeping
    req             \* the request passing through requestLogger

vars ==
    <<threads, feedKind, feedMax, script, closeErr, hasOnClose, feedI, feedMeta,
      feedCloseCalls, onCloseCalls, state, lasterr, curVal, rerr, cancelled,
      watcher, worker, fetched, wlock, rlocks, pc, implicit, call, last,
      delivered, onlyNext, badRows, errRows, noDocRows, dest, sa, errIn, codeOut,
      upd, req>>

config ==
    <<threads, feedKind, feedMax, script, closeErr, hasOnClose, rerr, badRows,
      errRows, noDocRows>>

\* What the iterator's own operations never touch: the bulk scan's bookkeeping,
\* the error resolution, the client's query counter and the request logger.
aside == <<dest, sa, errIn, codeOut, upd, req>>

\* ----------------------------------------------------------------- values

stateInit == "Init"
stateRowReady == "RowReady"
stateEOQ == "EOQ"
stateResultSetReady == "ResultSetReady"
stateClosed == "Closed"

States == {stateInit, stateRowReady, stateEOQ, stateResultSetReady, stateClosed}

\* errors, by origin
ErrCtx == "context deadline exceeded"
ErrFeed == "feed error"
ErrClose == "close error"
ErrNRS == "must call NextResultSet before Next"
ErrLocal == "local error"
ErrNotReady == "Metadata must not be called until result set iteration is complete"

\* the status code of the error Metadata returns
StatusBadRequest == 400

NilMeta == [isNil |-> TRUE, TotalRows |-> 0]

Min(a, b) == IF a < b THEN a ELSE b

RECURSIVE SeqsUpTo(_, _)
SeqsUpTo(S, n) ==
    IF n = 0 THEN {<<>>}
    ELSE LET shorter == SeqsUpTo(S, n - 1)
         IN shorter \cup {Append(s, x) : s \in {q \in shorter : Len(q) = n - 1}, x \in S}

RECURSIVE CountRows(_, _)
CountRows(s, n) ==
    IF n = 0 THEN 0
    ELSE CountRows(s, n - 1) + (IF s[n] = "row" THEN 1 ELSE 0)

\* ------------------------------------------------------------------- feed

\* TestFeed.Next ending the data one item early.
TestFeedNextEarly(i, max) ==
    IF i + 1 >= max THEN "EOF" ELSE "row"

\* TestFeed.Next: the item is f.i; end of data once f.i, incremented, exceeds max.
TestFeedNext(i, max) ==
    IF i + 1 > max THEN "EOF" ELSE "row"

\* driver.Rows.Next: the script's signals in turn, then io.EOF.
DriverNext(i) ==
    IF i < Len(script) THEN script[i + 1] ELSE "EOF"

\* The signal the feed's i-th fetch (from 0) returns.
FeedSignal(i) ==
    IF feedKind = "TestFeed" THEN TestFeedNext(i, feedMax) ELSE DriverNext(i)

\* What the i-th fetch leaves in the slot: TestFeed stores f.i before it decides
\* between a row and io.EOF; a driver row is numbered from 1, and the driver leaves
\* the slot alone when it has no row.
SlotAfter(i, slot) ==
    IF feedKind = "TestFeed" THEN i
    ELSE IF DriverNext(i) = "row" THEN i + 1 ELSE slot

\* The value of the k-th item (from 1) of the feed.
Item(k) ==
    IF feedKind = "TestFeed" THEN k - 1 ELSE k

\* rowsIterator.Next: on io.EOF or driver.EOQ the metadata the driver reports is
\* captured; the driver reports the rows it has sent so far.
MetaAfter(i, meta) ==
    IF feedKind = "rowsIterator" /\ DriverNext(i) \in {"EOF", "EOQ"}
    THEN [isNil |-> FALSE, TotalRows |-> CountRows(script, Min(i, Len(script)))]
    ELSE meta

\* ---------------------------------------------------------------- history

\* What a call in flight saw when it began, the fetches it has started and, for
\* a scan accessor, which one it is.
NoCall == [preState |-> stateInit, preErr |-> "nil", fetches |-> 0, acc |-> "none"]

Began(st, e) == [preState |-> st, preErr |-> e, fetches |-> 0, acc |-> "none"]

\* What a bulk scan was given and did: the kind of its destination and what the
\* destination held, the limit it computed, its calls of Next and of the scan
\* function, and the first error a scan returned.
NoBulk ==
    [kind |-> "none", init |-> <<>>, limit |-> 0, nexts |-> 0, scans |-> 0,
     scanErr |-> "nil"]

\* What a call returns: its boolean result (Next, NextResultSet), its error
\* result and that error's status (Close, Metadata, the accessors), the value it
\* read (Next, the accessors), why Next returned, the closes of the feed it made,
\* the metadata it returned and, for a bulk scan, what it did.
NoRes ==
    [ret |-> FALSE, err |-> "nil", status |-> 0, val |-> 0, why |-> "none",
     closes |-> 0, meta |-> NilMeta, bulk |-> NoBulk]

\* The record of a call that returned: what it returned, the state and Err()
\* before and after it, and the fetches it started.
Returned(op, c, postState, postErr, res) ==
    [op |-> op, ret |-> res.ret, err |-> res.err, status |-> res.status,
     val |-> res.val, why |-> res.why, closes |-> res.closes, meta |-> res.meta,
     bulk |-> res.bulk,
     preState |-> c.preState, preErr |-> c.preErr,
     postState |-> postState, postErr |-> postErr, fetches |-> c.fetches,
     acc |-> c.acc]

NoReturn == Returned("none", NoCall, stateInit, "nil", NoRes)

\* No bulk scan in flight.
NoScanAll ==
    [phase |-> "off", t |-> 0, began |-> NoCall, err |-> "nil", i |-> 0, bulk |-> NoBulk]

\* ------------------------------------------------------------------- init

Feeds ==
    [kind : {"TestFeed"}, max : 0..MaxLen, script : {<<>>}]
    \cup [kind : {"rowsIterator"}, max : {0}, script : SeqsUpTo({"row", "EOQ", "ERR"}, MaxLen)]

InitIter(T, F) ==
    /\ threads = T
    /\ \E f \in F :
        /\ feedKind = f.kind
        /\ feedMax = f.max
        /\ script = f.script
    /\ closeErr \in {"nil", ErrClose}
    /\ hasOnClose \in BOOLEAN
    /\ feedI = 0
    /\ feedMeta = NilMeta
    /\ feedCloseCalls = 0
    /\ onCloseCalls = 0
    /\ state = stateInit
    /\ lasterr = "nil"
    /\ curVal = 0
    /\ cancelled = FALSE
    /\ watcher = "waiting"
    /\ worker = "idle"
    /\ fetched = "none"
    /\ wlock = 0
    /\ rlocks = {}
    /\ pc = [t \in T |-> "idle"]
    /\ implicit = [t \in T |-> FALSE]
    /\ call = [t \in T |-> NoCall]
    /\ last = NoReturn
    /\ delivered = <<>>
    /\ onlyNext = TRUE

\* A result set built by newRows (no local error) over rows that carry a
\* document and no row-level error.
PlainRows ==
    /\ rerr = "nil"
    /\ errRows = {}
    /\ noDocRows = {}

\* No Client.DBUpdates call in play.
NoClient ==
    [phase |-> "none", driver |-> "none", startCalls |-> 0, started |-> 0, ended |-> 0]

\* No request in play, none logged: the status the response writer was sent
\* (0 if none), the status field of requestLogger's statusWriter, and the log
\* entries so far, each with the status sent and the status logged.
NoRequest ==
    [phase |-> "none", sent |-> 0, sw |-> [status |-> 0], log |-> <<>>]

\* Nothing but the iterator in play: no bulk scan, no error to resolve, no
\* client call, no request.
AsideIdle ==
    /\ dest = <<>>
    /\ sa = NoScanAll
    /\ errIn = <<>>
    /\ codeOut = -1
    /\ upd = NoClient
    /\ req = NoRequest

InitWith(T, F) ==
    /\ InitIter(T, F)
    /\ PlainRows
    /\ badRows = {}
    /\ AsideIdle

Init ==
    InitWith({1}, Feeds)

\* ---------------------------------------------------------- iterator core

\* iter.Err, and rows.Err over it: the locally recorded error if there is one,
\* else the core's.
IterErr(le) == le

\* rows.Err preferring the core's error to the local one.
RowsErrCoreFirst(re, le) ==
    IF IterErr(le) # "nil" THEN IterErr(le) ELSE re

RowsErr(re, le) ==
    IF re # "nil" THEN re ELSE IterErr(le)

Err == RowsErr(rerr, lasterr)

\* Lock granted while another thread holds the mutex exclusively.
CanLockOverWriter == rlocks = {}

\* iter.mu: Lock needs the mutex free, RLock needs no writer.
CanLock == wlock = 0 /\ rlocks = {}

CanRLock == wlock = 0

\* The state, lasterr and the counters after the feed has been closed, starting
\* from the recorded error le.  close() keeps the feed's Close error when no error
\* is recorded yet (capture); the end-of-data and feed-error transitions do not.
\* Closing ends the watcher and runs onClose.
Closing(le, capture) ==
    [state |-> stateClosed,
     lasterr |-> IF capture /\ le = "nil" THEN closeErr ELSE le,
     feedCloseCalls |-> feedCloseCalls + 1,
     onCloseCalls |-> onCloseCalls + (IF hasOnClose THEN 1 ELSE 0),
     watcher |-> "done"]

\* close(): idempotent; a closed iterator is left as it is.
CloseResult(le, capture) ==
    IF state = stateClosed
    THEN [state |-> state, lasterr |-> le, feedCloseCalls |-> feedCloseCalls,
          onCloseCalls |-> onCloseCalls, watcher |-> watcher]
    ELSE Closing(le, capture)

\* The core as it is: what a call that changes nothing leaves.
Keep ==
    [state |-> state, lasterr |-> lasterr, feedCloseCalls |-> feedCloseCalls,
     onCloseCalls |-> onCloseCalls, watcher |-> watcher]

Commit(r) ==
    /\ state' = r.state
    /\ lasterr' = r.lasterr
    /\ feedCloseCalls' = r.feedCloseCalls
    /\ onCloseCalls' = r.onCloseCalls
    /\ watcher' = r.watcher

core == <<state, lasterr, feedCloseCalls, onCloseCalls, watcher>>

\* advance(): the core after the fetch returned sig.  A row is ready; end of
\* query waits for NextResultSet; end of data closes the feed; any other error is
\* recorded and closes the feed.
\* The feed's error recorded without closing.
AdvanceErrorKeepsOpen(sig) ==
    CASE sig = "row" -> [Keep EXCEPT !.state = stateRowReady]
      [] sig = "EOQ" -> [Keep EXCEPT !.state = stateEOQ]
      [] sig = "EOF" -> Closing(lasterr, FALSE)
      [] OTHER -> [Keep EXCEPT !.lasterr = ErrFeed]

Advance(sig) ==
    CASE sig = "row" -> [Keep EXCEPT !.state = stateRowReady]
      [] sig = "EOQ" -> [Keep EXCEPT !.state = stateEOQ]
      [] sig = "EOF" -> Closing(lasterr, FALSE)
      [] OTHER -> Closing(ErrFeed, FALSE)

\* Next returns to its caller: an explicit Next records what it returned, the
\* accessor's implicit Next goes on to the accessor's close.
NextDone(t, c, ret, why, r) ==
    /\ delivered' = IF ret THEN Append(delivered, curVal) ELSE delivered
    /\ IF implicit[t]
       THEN /\ pc' = [pc EXCEPT ![t] = "accClose"]
            /\ call' = [call EXCEPT ![t] = c]
            /\ UNCHANGED last
       ELSE /\ pc' = [pc EXCEPT ![t] = "idle"]
            /\ call' = [call EXCEPT ![t] = NoCall]
            /\ last' = Returned("Next", c, r.state, RowsErr(rerr, r.lasterr),
                                [NoRes EXCEPT !.ret = ret, !.why = why, !.val = curVal,
                                              !.closes = r.feedCloseCalls - feedCloseCalls])

\* Next takes the lock.  Closed, or with an error recorded, it returns false at
\* once; otherwise it hands the fetch to the worker and waits for the fetch or
\* the cancellation, whichever comes first.
StartNext(t, c) ==
    /\ CanLock
    /\ IF state = stateClosed \/ lasterr # "nil"
       THEN /\ NextDone(t, c, FALSE, "noop", Keep)
            /\ UNCHANGED <<worker, wlock>>
       ELSE /\ wlock' = t
            /\ worker' = "running"
            /\ pc' = [pc EXCEPT ![t] = "nextWait"]
            /\ call' = [call EXCEPT ![t] = [c EXCEPT !.fetches = @ + 1]]
            /\ UNCHANGED <<last, delivered>>
    /\ UNCHANGED <<config, core, feedI, feedMeta, curVal, cancelled, fetched, rlocks, implicit>>

IterNext(t) ==
    /\ pc[t] = "idle"
    /\ StartNext(t, Began(state, Err))
    /\ UNCHANGED <<onlyNext, aside>>

\* The worker runs the feed's fetch: the feed writes the slot it was handed,
\* which is curVal.  An endless feed blocks once FeedCap items were served.
FeedBlocks ==
    feedKind = "TestFeed" /\ feedMax = EndlessMax /\ feedI >= FeedCap

Fetch ==
    /\ worker = "running"
    /\ ~FeedBlocks
    /\ curVal' = SlotAfter(feedI, curVal)
    /\ feedMeta' = MetaAfter(feedI, feedMeta)
    /\ fetched' = FeedSignal(feedI)
    /\ feedI' = feedI + 1
    /\ worker' = "done"
    /\ UNCHANGED <<config, aside, core, cancelled, wlock, rlocks, pc, implicit, call, last, delivered, onlyNext>>

\* The fetch completed first: Next commits its outcome and releases the lock.
NextReturn(t) ==
    /\ pc[t] = "nextWait"
    /\ worker = "done"
    /\ LET r == Advance(fetched)
       IN /\ Commit(r)
          /\ NextDone(t, call[t], fetched = "row", fetched, r)
    /\ worker' = "idle"
    /\ fetched' = "none"
    /\ wlock' = 0
    /\ UNCHANGED <<config, aside, feedI, feedMeta, curVal, cancelled, rlocks, implicit, onlyNext>>

\* The cancellation came first: Next records the scope's reason and returns
\* false at once.  The fetch is abandoned, its result discarded; the watcher
\* closes the feed.
NextCancelled(t) ==
    /\ pc[t] = "nextWait"
    /\ cancelled
    /\ Commit([Keep EXCEPT !.lasterr = ErrCtx])
    /\ NextDone(t, call[t], FALSE, "cancelled", [Keep EXCEPT !.lasterr = ErrCtx])
    /\ worker' = IF worker = "running" THEN "abandoned" ELSE "idle"
    /\ fetched' = "none"
    /\ wlock' = 0
    /\ UNCHANGED <<config, aside, feedI, feedMeta, curVal, cancelled, rlocks, implicit, onlyNext>>

\* An abandoned fetch ends: either the feed's Close aborted it, or it completes
\* and, as any fetch, has written the slot it was handed.
LateFetch ==
    /\ worker = "abandoned"
    /\ worker' = "idle"
    /\ \/ UNCHANGED <<curVal, feedMeta, feedI>>
       \/ /\ ~FeedBlocks
          /\ curVal' = SlotAfter(feedI, curVal)
          /\ feedMeta' = MetaAfter(feedI, feedMeta)
          /\ feedI' = feedI + 1
    /\ UNCHANGED <<config, aside, core, cancelled, fetched, wlock, rlocks, pc, implicit, call, last, delivered, onlyNext>>

\* close(): under the lock; idempotent.  It returns the feed's Close error.
IterClose(t) ==
    /\ pc[t] = "idle"
    /\ CanLock
    /\ LET r == CloseResult(lasterr, TRUE)
       IN /\ Commit(r)
          /\ last' = Returned("Close", Began(state, Err), r.state, RowsErr(rerr, r.lasterr),
                              [NoRes EXCEPT !.err = IF state = stateClosed THEN "nil" ELSE closeErr,
                                            !.closes = r.feedCloseCalls - feedCloseCalls])
    /\ onlyNext' = FALSE
    /\ UNCHANGED <<config, aside, feedI, feedMeta, curVal, cancelled, worker, fetched, wlock, rlocks, pc, implicit, call, delivered>>

\* The scope is cancelled, or its deadline passes.
Cancel ==
    /\ ~cancelled
    /\ cancelled' = TRUE
    /\ UNCHANGED <<config, aside, core, feedI, feedMeta, curVal, worker, fetched, wlock, rlocks, pc, implicit, call, last, delivered, onlyNext>>

\* The watcher closing the iterator without recording the scope's reason.
AwaitDoneSilent ==
    /\ cancelled
    /\ watcher = "waiting"
    /\ CanLock
    /\ Commit(CloseResult(lasterr, TRUE))
    /\ UNCHANGED <<config, aside, feedI, feedMeta, curVal, cancelled, worker, fetched, wlock, rlocks, pc, implicit, call, last, delivered, onlyNext>>

\* The watcher recording the scope's reason without closing the iterator.
AwaitDoneOnlyRecords ==
    /\ cancelled
    /\ watcher = "waiting"
    /\ CanLock
    /\ Commit([Keep EXCEPT !.lasterr = IF lasterr = "nil" THEN ErrCtx ELSE lasterr,
                           !.watcher = "done"])
    /\ UNCHANGED <<config, aside, feedI, feedMeta, curVal, cancelled, worker, fetched, wlock, rlocks, pc, implicit, call, last, delivered, onlyNext>>

\* The watcher: once the scope is done it closes the iterator, recording the
\* scope's reason unless an error is recorded already.
AwaitDone ==
    /\ cancelled
    /\ watcher = "waiting"
    /\ CanLock
    /\ Commit(CloseResult(IF lasterr = "nil" THEN ErrCtx ELSE lasterr, TRUE))
    /\ UNCHANGED <<config, aside, feedI, feedMeta, curVal, cancelled, worker, fetched, wlock, rlocks, pc, implicit, call, last, delivered, onlyNext>>

\* ------------------------------------------------------------ rows / ResultSet

\* rows.Next and rows.Close pass through to the core.
RowsNext(t) ==
    IterNext(t)

RowsClose(t) ==
    IterClose(t)

\* rows.NextResultSet taking the end of a query for the end of the results.
NextResultSetStopsAtEOQ(st, le) ==
    IF le # "nil" THEN [ret |-> FALSE, state |-> st, lasterr |-> le]
    ELSE IF st = stateClosed \/ st = stateEOQ THEN [ret |-> FALSE, state |-> st, lasterr |-> le]
    ELSE IF st = stateRowReady THEN [ret |-> FALSE, state |-> st, lasterr |-> ErrNRS]
    ELSE [ret |-> TRUE, state |-> stateResultSetReady, lasterr |-> le]

\* rows.NextResultSet recording its error over one already recorded.
NextResultSetOverwrites(st, le) ==
    IF st = stateClosed THEN [ret |-> FALSE, state |-> st, lasterr |-> le]
    ELSE IF st = stateRowReady THEN [ret |-> FALSE, state |-> st, lasterr |-> ErrNRS]
    ELSE IF le # "nil" THEN [ret |-> FALSE, state |-> st, lasterr |-> le]
    ELSE [ret |-> TRUE, state |-> stateResultSetReady, lasterr |-> le]

\* rows.NextResultSet without its check for a closed iterator.
NextResultSetReopens(st, le) ==
    IF le # "nil" THEN [ret |-> FALSE, state |-> st, lasterr |-> le]
    ELSE IF st = stateRowReady THEN [ret |-> FALSE, state |-> st, lasterr |-> ErrNRS]
    ELSE [ret |-> TRUE, state |-> stateResultSetReady, lasterr |-> le]

\* rows.NextResultSet marking the iterator closed when a row is ready.
NextResultSetFailsClosed(st, le) ==
    IF le # "nil" THEN [ret |-> FALSE, state |-> st, lasterr |-> le]
    ELSE IF st = stateClosed THEN [ret |-> FALSE, state |-> st, lasterr |-> le]
    ELSE IF st = stateRowReady THEN [ret |-> FALSE, state |-> stateClosed, lasterr |-> ErrNRS]
    ELSE [ret |-> TRUE, state |-> stateResultSetReady, lasterr |-> le]

\* rows.NextResultSet without its check for a row that is ready.
NextResultSetSkipsRow(st, le) ==
    IF le # "nil" THEN [ret |-> FALSE, state |-> st, lasterr |-> le]
    ELSE IF st = stateClosed THEN [ret |-> FALSE, state |-> st, lasterr |-> le]
    ELSE [ret |-> TRUE, state |-> stateResultSetReady, lasterr |-> le]

\* rows.NextResultSet, by the state st and the recorded error le: refused with an
\* error recorded or when closed; an error while a row is ready; otherwise the
\* next result set is ready.
NextResultSetResult(st, le) ==
    IF le # "nil" THEN [ret |-> FALSE, state |-> st, lasterr |-> le]
    ELSE IF st = stateClosed THEN [ret |-> FALSE, state |-> st, lasterr |-> le]
    ELSE IF st = stateRowReady THEN [ret |-> FALSE, state |-> st, lasterr |-> ErrNRS]
    ELSE [ret |-> TRUE, state |-> stateResultSetReady, lasterr |-> le]

\* rows.NextResultSet runs under the shared lock.
NextResultSet(t) ==
    /\ pc[t] = "idle"
    /\ CanRLock
    /\ LET n == NextResultSetResult(state, lasterr)
           r == [Keep EXCEPT !.state = n.state, !.lasterr = n.lasterr]
       IN /\ Commit(r)
          /\ last' = Returned("NextResultSet", Began(state, Err), r.state,
                              RowsErr(rerr, r.lasterr), [NoRes EXCEPT !.ret = n.ret])
    /\ onlyNext' = FALSE
    /\ UNCHANGED <<config, aside, feedI, feedMeta, curVal, cancelled, worker, fetched, wlock, rlocks, pc, implicit, call, delivered>>

\* rows.NextResultSet as two threads see it: r.mu.RLock() ...
NextResultSetLock(t) ==
    /\ pc[t] = "idle"
    /\ CanRLock
    /\ rlocks' = rlocks \cup {t}
    /\ pc' = [pc EXCEPT ![t] = "nrs"]
    /\ call' = [call EXCEPT ![t] = Began(state, Err)]
    /\ onlyNext' = FALSE
    /\ UNCHANGED <<config, aside, core, feedI, feedMeta, curVal, cancelled, worker, fetched, wlock, implicit, last, delivered>>

\* ... then the tests and the assignment to r.lasterr or r.state, made under
\* that shared lock, and the deferred RUnlock.
NextResultSetApply(t) ==
    /\ pc[t] = "nrs"
    /\ LET n == NextResultSetResult(state, lasterr)
           r == [Keep EXCEPT !.state = n.state, !.lasterr = n.lasterr]
       IN /\ Commit(r)
          /\ last' = Returned("NextResultSet", call[t], r.state,
                              RowsErr(rerr, r.lasterr), [NoRes EXCEPT !.ret = n.ret])
    /\ rlocks' = rlocks \ {t}
    /\ pc' = [pc EXCEPT ![t] = "idle"]
    /\ call' = [call EXCEPT ![t] = NoCall]
    /\ UNCHANGED <<config, aside, feedI, feedMeta, curVal, cancelled, worker, fetched, wlock, implicit, delivered, onlyNext>>

\* rows.Metadata letting a ready row through as well.
MetadataResultRowReady(st, meta) ==
    IF st # stateEOQ /\ st # stateClosed /\ st # stateRowReady
    THEN [meta |-> NilMeta, err |-> ErrNotReady, status |-> StatusBadRequest]
    ELSE [meta |-> meta, err |-> "nil", status |-> 0]

\* rows.Metadata, by the state st and the feed's captured metadata: an error of
\* status 400 and no record unless the state is EOQ or Closed, else the feed's
\* ResultMetadata pointer as it is.
MetadataResult(st, meta) ==
    IF st # stateEOQ /\ st # stateClosed
    THEN [meta |-> NilMeta, err |-> ErrNotReady, status |-> StatusBadRequest]
    ELSE [meta |-> meta, err |-> "nil", status |-> 0]

\* rows.Metadata takes no lock.
Metadata(t) ==
    /\ pc[t] = "idle"
    /\ feedKind = "rowsIterator"
    /\ LET m == MetadataResult(state, feedMeta)
       IN last' = Returned("Metadata", Began(state, Err), state, Err,
                           [NoRes EXCEPT !.err = m.err, !.status = m.status, !.meta = m.meta])
    /\ UNCHANGED <<config, aside, core, feedI, feedMeta, curVal, cancelled, worker, fetched, wlock, rlocks, pc, implicit, call, delivered, onlyNext>>

\* rows.Metadata as two threads see it: the call is entered, no lock taken ...
MetadataEnter(t) ==
    /\ pc[t] = "idle"
    /\ feedKind = "rowsIterator"
    /\ pc' = [pc EXCEPT ![t] = "meta"]
    /\ call' = [call EXCEPT ![t] = Began(state, Err)]
    /\ UNCHANGED <<config, aside, core, feedI, feedMeta, curVal, cancelled, worker, fetched, wlock, rlocks, implicit, last, delivered, onlyNext>>

\* ... then r.state and the feed's ResultMetadata are read.
MetadataRead(t) ==
    /\ pc[t] = "meta"
    /\ LET m == MetadataResult(state, feedMeta)
       IN last' = Returned("Metadata", call[t], state, Err,
                           [NoRes EXCEPT !.err = m.err, !.status = m.status, !.meta = m.meta])
    /\ pc' = [pc EXCEPT ![t] = "idle"]
    /\ call' = [call EXCEPT ![t] = NoCall]
    /\ UNCHANGED <<config, aside, core, feedI, feedMeta, curVal, cancelled, worker, fetched, wlock, rlocks, implicit, delivered, onlyNext>>

\* The error of decoding a row that does not decode, and the zero value of
\* what it is decoded into.
ErrDecode == "json: cannot unmarshal"
Zero == 0

\* ScanDoc / ScanValue on the row in the slot: the error of decoding it.
Decode(v) ==
    IF v \in badRows THEN ErrDecode ELSE "nil"

\* What decoding the row in the slot leaves in the new element.
Decoded(v) ==
    IF v \in badRows THEN Zero ELSE v

\* rows.Err called by a thread.
RowsErrCall(t) ==
    /\ pc[t] = "idle"
    /\ CanRLock
    /\ last' = Returned("Err", Began(state, Err), state, Err,
                        [NoRes EXCEPT !.err = RowsErr(rerr, lasterr)])
    /\ UNCHANGED <<config, aside, core, feedI, feedMeta, curVal, cancelled, worker, fetched,
                   wlock, rlocks, pc, implicit, call, delivered, onlyNext>>

\* The scan accessors that return an error.
Accessors == {"ScanValue", "ScanDoc", "ScanKey"}

\* A row-level error, and ScanDoc's error for a row without a document.
ErrRow == "row error"
ErrDocNil == "kivik: doc is nil; does the query include docs?"

\* Whether the slot holds a row with a document; the row newRows puts in the
\* slot (value 0) has none, and neither value nor key.
HasDoc(v) == v # 0 /\ v \notin noDocRows

\* ScanDoc taking a row without a document for one with nothing to decode.
AccessorResultDocNilOK(a, v) ==
    IF v \in errRows THEN [err |-> ErrRow, status |-> 0]
    ELSE IF a = "ScanKey" THEN [err |-> IF v = 0 THEN ErrDecode ELSE Decode(v), status |-> 0]
    ELSE [err |-> IF (a = "ScanDoc" /\ ~HasDoc(v)) \/ v = 0 THEN "nil" ELSE Decode(v), status |-> 0]

\* What an accessor returns for the row in the slot, with the Status of the
\* error where it is an Error: the row's error if it carries one; else for
\* ScanDoc the decoding of the document, 400 "doc is nil" if there is none; for
\* ScanValue the decoding of the value, nil if there is none; for ScanKey the
\* decoding of the key, which fails on no key.
AccessorResult(a, v) ==
    IF v \in errRows THEN [err |-> ErrRow, status |-> 0]
    ELSE IF a = "ScanDoc"
    THEN IF HasDoc(v) THEN [err |-> Decode(v), status |-> 0]
         ELSE [err |-> ErrDocNil, status |-> StatusBadRequest]
    ELSE IF a = "ScanValue"
    THEN [err |-> IF v = 0 THEN "nil" ELSE Decode(v), status |-> 0]
    ELSE [err |-> IF v = 0 THEN ErrDecode ELSE Decode(v), status |-> 0]

\* A scan accessor (ScanValue, ScanDoc, ScanKey, ID, Key) begins: a locally
\* recorded error is returned at once; makeReady then looks at the state under
\* the shared lock.  In Init it lets the lock go and takes the one-shot path
\* (an implicit Next, then a close); otherwise it keeps the shared lock for the
\* read.
ScanBegin(t) ==
    /\ pc[t] = "idle"
    /\ CanRLock
    /\ onlyNext' = FALSE
    /\ \E a \in Accessors :
        LET c == [Began(state, Err) EXCEPT !.acc = a]
        IN IF rerr # "nil"
           THEN /\ last' = Returned("Scan", c, state, Err, [NoRes EXCEPT !.err = rerr])
                /\ UNCHANGED <<pc, implicit, call, rlocks>>
           ELSE IF state = stateInit
           THEN /\ pc' = [pc EXCEPT ![t] = "accNext"]
                /\ implicit' = [implicit EXCEPT ![t] = TRUE]
                /\ call' = [call EXCEPT ![t] = c]
                /\ UNCHANGED <<last, rlocks>>
           ELSE /\ pc' = [pc EXCEPT ![t] = "accRead"]
                /\ rlocks' = rlocks \cup {t}
                /\ call' = [call EXCEPT ![t] = c]
                /\ UNCHANGED <<last, implicit>>
    /\ UNCHANGED <<config, aside, core, feedI, feedMeta, curVal, cancelled, worker, fetched, wlock, delivered>>

\* The one-shot path's implicit Next.
ScanNext(t) ==
    /\ pc[t] = "accNext"
    /\ StartNext(t, call[t])
    /\ UNCHANGED <<onlyNext, aside>>

\* The one-shot path reading the value fetched without closing.
ScanCloseForgotten(t) ==
    /\ pc[t] = "accClose"
    /\ CanLock
    /\ last' = Returned("Scan", call[t], state, Err, [NoRes EXCEPT !.err = AccessorResult(call[t].acc, curVal).err,
                                            !.status = AccessorResult(call[t].acc, curVal).status,
                                            !.val = curVal, !.why = "oneshot"])
    /\ pc' = [pc EXCEPT ![t] = "idle"]
    /\ implicit' = [implicit EXCEPT ![t] = FALSE]
    /\ call' = [call EXCEPT ![t] = NoCall]
    /\ UNCHANGED <<config, aside, core, feedI, feedMeta, curVal, cancelled, worker, fetched, wlock, rlocks, delivered, onlyNext>>

\* The one-shot path's close, and the read of the value fetched.
ScanClose(t) ==
    /\ pc[t] = "accClose"
    /\ CanLock
    /\ LET r == CloseResult(lasterr, TRUE)
       IN /\ Commit(r)
          /\ last' = Returned("Scan", call[t], r.state, RowsErr(rerr, r.lasterr),
                              [NoRes EXCEPT !.err = AccessorResult(call[t].acc, curVal).err,
                                            !.status = AccessorResult(call[t].acc, curVal).status,
                                            !.val = curVal, !.why = "oneshot",
                                            !.closes = r.feedCloseCalls - feedCloseCalls])
    /\ pc' = [pc EXCEPT ![t] = "idle"]
    /\ implicit' = [implicit EXCEPT ![t] = FALSE]
    /\ call' = [call EXCEPT ![t] = NoCall]
    /\ UNCHANGED <<config, aside, feedI, feedMeta, curVal, cancelled, worker, fetched, wlock, rlocks, delivered, onlyNext>>

\* The read of the current value closing the iterator when the row does not
\* decode.
ScanReadClosing(t) ==
    /\ pc[t] = "accRead"
    /\ LET res == AccessorResult(call[t].acc, curVal)
           r == IF res.err = "nil" THEN Keep ELSE CloseResult(res.err, FALSE)
       IN /\ Commit(r)
          /\ last' = Returned("Scan", call[t], r.state, RowsErr(rerr, r.lasterr),
                              [NoRes EXCEPT !.err = res.err, !.status = res.status,
                                            !.val = curVal, !.why = "read",
                                            !.closes = r.feedCloseCalls - feedCloseCalls])
    /\ rlocks' = rlocks \ {t}
    /\ pc' = [pc EXCEPT ![t] = "idle"]
    /\ call' = [call EXCEPT ![t] = NoCall]
    /\ UNCHANGED <<config, aside, feedI, feedMeta, curVal, cancelled, worker, fetched, wlock, implicit, delivered, onlyNext>>

\* The read of the current value under the shared lock.
ScanRead(t) ==
    /\ pc[t] = "accRead"
    /\ last' = Returned("Scan", call[t], state, Err, [NoRes EXCEPT !.err = AccessorResult(call[t].acc, curVal).err,
                                      !.status = AccessorResult(call[t].acc, curVal).status,
                                      !.val = curVal, !.why = "read"])
    /\ rlocks' = rlocks \ {t}
    /\ pc' = [pc EXCEPT ![t] = "idle"]
    /\ call' = [call EXCEPT ![t] = NoCall]
    /\ UNCHANGED <<config, aside, core, feedI, feedMeta, curVal, cancelled, worker, fetched, wlock, implicit, delivered, onlyNext>>

\* -------------------------------------------------------------- bulk scan

\* Longest array handed to the bulk scan.
MaxArr == 2

\* scanAll's own errors.
ErrNotPtr == "must pass a pointer to ScanAllDocs"
ErrNilPtr == "nil pointer passed to ScanAllDocs"
ErrZeroLen == "0-length array passed to ScanAllDocs"
ErrDestKind == "dest must be a pointer to a slice or array"

\* An element a slice held before the scan.
Old == 0 - 1

\* What a caller may pass as dest: something that is no pointer, a nil pointer,
\* a pointer to something else, a pointer to an array of 0..MaxArr elements, a
\* pointer to a slice that is empty or holds an element.
Dests ==
    [kind : {"value", "nilptr", "other"}, init : {<<>>}]
    \cup [kind : {"array"}, init : {[k \in 1..n |-> Zero] : n \in 0..MaxArr}]
    \cup [kind : {"slice"}, init : {<<>>, <<Old>>}]

\* The check of dest letting an array of no elements through.
DestCheckNoZero(d) ==
    IF d.kind = "value" THEN [err |-> ErrNotPtr, limit |-> 0]
    ELSE IF d.kind = "nilptr" THEN [err |-> ErrNilPtr, limit |-> 0]
    ELSE IF d.kind = "array" THEN [err |-> "nil", limit |-> Len(d.init)]
    ELSE IF d.kind = "slice" THEN [err |-> "nil", limit |-> 0]
    ELSE [err |-> ErrDestKind, limit |-> 0]

\* scanAll's check of dest: the error it returns for it, "nil" if none, and the
\* limit it computes (the array's length; 0 for a slice).
DestCheck(d) ==
    IF d.kind = "value" THEN [err |-> ErrNotPtr, limit |-> 0]
    ELSE IF d.kind = "nilptr" THEN [err |-> ErrNilPtr, limit |-> 0]
    ELSE IF d.kind = "array"
    THEN IF Len(d.init) = 0 THEN [err |-> ErrZeroLen, limit |-> 0]
         ELSE [err |-> "nil", limit |-> Len(d.init)]
    ELSE IF d.kind = "slice" THEN [err |-> "nil", limit |-> 0]
    ELSE [err |-> ErrDestKind, limit |-> 0]

\* The new element stored by appending, whatever dest is.
StoreAppends(d, limit, i, v) ==
    Append(d, v)

\* The new element stored: at index i of an array (limit > 0), appended to a
\* slice.
Store(d, limit, i, v) ==
    IF limit > 0 THEN [d EXCEPT ![i + 1] = v] ELSE Append(d, v)

\* scanAll up to its loop: the deferred close is registered, r.Err() is
\* consulted, dest is checked.
ScanAllBegin(t, d) ==
    /\ pc[t] = "idle"
    /\ sa.phase = "off"
    /\ CanRLock
    /\ LET chk == DestCheck(d)
           first == IF Err # "nil" THEN Err ELSE chk.err
       IN sa' = [phase |-> IF first # "nil" THEN "closing" ELSE "callNext",
                 t |-> t, began |-> Began(state, Err), err |-> first, i |-> 0,
                 bulk |-> [NoBulk EXCEPT !.kind = d.kind, !.init = d.init,
                                         !.limit = IF Err # "nil" THEN 0 ELSE chk.limit]]
    /\ dest' = d.init
    /\ onlyNext' = FALSE
    /\ UNCHANGED <<config, core, feedI, feedMeta, curVal, cancelled, worker, fetched,
                   wlock, rlocks, pc, implicit, call, last, delivered, errIn, codeOut, upd, req>>

\* The loop's condition: r.Next().
ScanAllNext(t) ==
    /\ pc[t] = "idle"
    /\ sa.phase = "callNext" /\ sa.t = t
    /\ StartNext(t, Began(state, Err))
    /\ sa' = [sa EXCEPT !.phase = "inNext", !.bulk.nexts = @ + 1]
    /\ UNCHANGED <<onlyNext, dest, errIn, codeOut, upd, req>>

\* The loop once Next has returned: it ends when Next returned false, and when
\* the array is full; else the row is scanned into a new element, the scan's
\* error is assigned to err, and the element is stored at i or appended.
ScanAllStep(t) ==
    /\ pc[t] = "idle"
    /\ sa.phase = "inNext" /\ sa.t = t
    /\ CanRLock
    /\ LET seen == [sa EXCEPT !.began.fetches = @ + last.fetches]
           limit == sa.bulk.limit
       IN IF ~last.ret \/ (limit > 0 /\ sa.i >= limit)
          THEN /\ sa' = [seen EXCEPT !.phase = "closing", !.err = "nil"]
               /\ UNCHANGED dest
          ELSE /\ sa' = [seen EXCEPT !.phase = "callNext", !.err = Decode(curVal),
                                     !.i = @ + 1, !.bulk.scans = @ + 1,
                                     !.bulk.scanErr = IF @ = "nil" THEN Decode(curVal) ELSE @]
               /\ dest' = Store(dest, limit, sa.i, Decoded(curVal))
    /\ UNCHANGED <<config, core, feedI, feedMeta, curVal, cancelled, worker, fetched,
                   wlock, rlocks, pc, implicit, call, last, delivered, onlyNext,
                   errIn, codeOut, upd, req>>

\* scanAll returning what it has, without closing the result set.
ScanAllReturnNoClose(t) ==
    /\ pc[t] = "idle"
    /\ sa.phase = "closing" /\ sa.t = t
    /\ last' = Returned("ScanAll", sa.began, state, Err,
                        [NoRes EXCEPT !.err = sa.err, !.bulk = sa.bulk])
    /\ sa' = [NoScanAll EXCEPT !.phase = "returned"]
    /\ UNCHANGED <<config, core, feedI, feedMeta, curVal, cancelled, worker, fetched,
                   wlock, rlocks, pc, implicit, call, delivered, onlyNext, dest,
                   errIn, codeOut, upd, req>>

\* scanAll's return: the deferred function closes the result set, and Close's
\* error becomes the result when err is nil.
ScanAllReturn(t) ==
    /\ pc[t] = "idle"
    /\ sa.phase = "closing" /\ sa.t = t
    /\ CanLock
    /\ LET r == CloseResult(lasterr, TRUE)
           closed == IF state = stateClosed THEN "nil" ELSE closeErr
       IN /\ Commit(r)
          /\ last' = Returned("ScanAll", sa.began, r.state, RowsErr(rerr, r.lasterr),
                              [NoRes EXCEPT !.err = IF sa.err = "nil" THEN closed ELSE sa.err,
                                            !.closes = r.feedCloseCalls - feedCloseCalls,
                                            !.bulk = sa.bulk])
    /\ sa' = [NoScanAll EXCEPT !.phase = "returned"]
    /\ UNCHANGED <<config, feedI, feedMeta, curVal, cancelled, worker, fetched,
                   wlock, rlocks, pc, implicit, call, delivered, onlyNext, dest,
                   errIn, codeOut, upd, req>>

\* ------------------------------------------------------ status resolution

\* Longest error chain resolved: the Error with its cause under the six
\* wrappers of TestStatusCoder's "deeply buried".
MaxChain == 8

\* http.StatusNotFound, and the status of an error that exposes none.
StatusNotFound == 404
StatusInternalServerError == 500

\* The layers of an error, outermost first: a kivik Error exposing its
\* HTTPStatus, a pkg/errors wrapper (exposing Cause), an xerrors wrapper
\* (exposing Unwrap), or an error exposing nothing, as errors.New makes.  The
\* nil error has no layer.
Layer(kind, status) == [kind |-> kind, status |-> status]

Wrappers == {"cause", "unwrap"}

\* The errors before any wrapping: nil, a plain error, an Error with or without
\* a plain cause.
BaseErrors ==
    {<<>>, <<Layer("plain", 0)>>}
    \cup {<<Layer("status", c)>> : c \in {StatusBadRequest, StatusNotFound}}
    \cup {<<Layer("status", c), Layer("plain", 0)>> : c \in {StatusBadRequest, StatusNotFound}}

\* The walk giving up at a layer that exposes Cause and not Unwrap.
RECURSIVE StatusWalkUnwrapOnly(_, _)
StatusWalkUnwrapOnly(e, k) ==
    IF k > Len(e) THEN StatusInternalServerError
    ELSE IF e[k].kind = "status" THEN e[k].status
    ELSE IF e[k].kind = "unwrap" THEN StatusWalkUnwrapOnly(e, k + 1)
    ELSE StatusInternalServerError

\* The walk from layer k inwards: the status of the first layer exposing one,
\* reached through whichever of Cause and Unwrap each layer exposes; 500 when
\* the walk ends at a layer exposing neither.
RECURSIVE StatusWalk(_, _)
StatusWalk(e, k) ==
    IF k > Len(e) THEN StatusInternalServerError
    ELSE IF e[k].kind = "status" THEN e[k].status
    ELSE IF e[k].kind \in Wrappers THEN StatusWalk(e, k + 1)
    ELSE StatusInternalServerError

\* StatusCode walking the nil error as any other.
StatusCodeOfNilWalks(e) ==
    StatusWalk(e, 1)

\* StatusCode: 0 for nil, else the walk.
StatusCode(e) ==
    IF e = <<>> THEN 0 ELSE StatusWalk(e, 1)

\* pkgerrs.Wrap(err, "foo") / xerrors.Errorf("bar: %w", err) on the error.
WrapError(w) ==
    /\ errIn # <<>>
    /\ Len(errIn) < MaxChain
    /\ errIn' = <<Layer(w, 0)>> \o errIn
    /\ codeOut' = 0 - 1
    /\ UNCHANGED <<config, core, feedI, feedMeta, curVal, cancelled, worker, fetched,
                   wlock, rlocks, pc, implicit, call, last, delivered, onlyNext, dest, sa,
                   upd, req>>

\* result := StatusCode(test.Err)
ResolveStatus ==
    /\ codeOut = 0 - 1
    /\ codeOut' = StatusCode(errIn)
    /\ UNCHANGED <<config, core, feedI, feedMeta, curVal, cancelled, worker, fetched,
                   wlock, rlocks, pc, implicit, call, last, delivered, onlyNext, dest, sa,
                   errIn, upd, req>>

\* ------------------------------------------------------- Client.DBUpdates

ErrNoUpdater == "kivik: driver does not implement DBUpdater"
ErrStartQuery == "startQuery failed"
ErrDriver == "driver error"

\* The drivers and clients Client.DBUpdates meets: a driver that is no
\* driver.DBUpdater, a client whose startQuery fails, a driver whose DBUpdates
\* fails, and one that returns its feed.
Drivers == {"noupdater", "startfail", "driverfail", "ok"}

\* Client.DBUpdates leaving the query open when the driver's call fails.
DBUpdatesResultNoEnd(d) ==
    CASE d = "noupdater" -> [err |-> ErrNoUpdater, startCalls |-> 0, started |-> 0, ended |-> 0]
      [] d = "startfail" -> [err |-> ErrStartQuery, startCalls |-> 1, started |-> 0, ended |-> 0]
      [] d = "driverfail" -> [err |-> ErrDriver, startCalls |-> 1, started |-> 1, ended |-> 0]
      [] OTHER -> [err |-> "nil", startCalls |-> 1, started |-> 1, ended |-> 0]

\* Client.DBUpdates up to its return, on driver d: the error it hands to
\* errIterator ("nil" when it goes on to newDBUpdates), how often it called
\* startQuery, how often that succeeded, and how often it called endQuery itself.
DBUpdatesResult(d) ==
    CASE d = "noupdater" -> [err |-> ErrNoUpdater, startCalls |-> 0, started |-> 0, ended |-> 0]
      [] d = "startfail" -> [err |-> ErrStartQuery, startCalls |-> 1, started |-> 0, ended |-> 0]
      [] d = "driverfail" -> [err |-> ErrDriver, startCalls |-> 1, started |-> 1, ended |-> 1]
      [] OTHER -> [err |-> "nil", startCalls |-> 1, started |-> 1, ended |-> 0]

\* Client.DBUpdates returns: on success the iterator newDBUpdates made, over the
\* driver's feed, with c.endQuery as onClose; otherwise errIterator's, which
\* holds the error, is given no callback and no feed, and is closed.
ClientDBUpdates(t) ==
    /\ pc[t] = "idle"
    /\ upd.phase = "none"
    /\ LET r == DBUpdatesResult(upd.driver)
       IN /\ upd' = [upd EXCEPT !.phase = "returned", !.startCalls = r.startCalls,
                                !.started = r.started, !.ended = r.ended]
          /\ IF r.err = "nil"
             THEN UNCHANGED core
             ELSE Commit([Keep EXCEPT !.state = stateClosed, !.lasterr = r.err,
                                      !.watcher = "done"])
    /\ UNCHANGED <<config, dest, sa, errIn, codeOut, req, feedI, feedMeta, curVal, cancelled,
                   worker, fetched, wlock, rlocks, pc, implicit, call, last, delivered, onlyNext>>

\* DBUpdates.Next and DBUpdates.Close are the core's, on the iterator returned.
UpdatesNext(t) ==
    /\ upd.phase = "returned"
    /\ IterNext(t)

UpdatesClose(t) ==
    /\ upd.phase = "returned"
    /\ IterClose(t)

\* How often c.endQuery has run: in Client.DBUpdates itself, and as the onClose
\* of the iterator it returned.
EndQueryCalls ==
    upd.ended + (IF hasOnClose THEN onCloseCalls ELSE 0)

\* ----------------------------------------------------------- requestLogger

\* Requests served in a run.
MaxReq == 3

\* The statuses a handler answers with.
HandlerStatuses == {StatusBadRequest, StatusNotFound, StatusInternalServerError}

\* statusWriter.WriteHeader(status) called on the statusWriter w.  The receiver
\* is a value: the method assigns the status field of its own copy of w, and
\* hands status on to the embedded ResponseWriter.  caller is w as the caller
\* holds it after the call.
WriteHeader(w, status) ==
    [caller |-> w, sent |-> status]

\* requestLogger's handler is entered: sw := statusWriter{ResponseWriter: w},
\* and next.ServeHTTP(sw, r) is called.
ServeBegin ==
    /\ req.phase = "none"
    /\ Len(req.log) < MaxReq
    /\ req' = [req EXCEPT !.phase = "handler", !.sent = 0, !.sw = [status |-> 0]]
    /\ UNCHANGED <<config, core, feedI, feedMeta, curVal, cancelled, worker, fetched,
                   wlock, rlocks, pc, implicit, call, last, delivered, onlyNext, dest, sa,
                   errIn, codeOut, upd>>

\* The wrapped handler calls WriteHeader on the writer it was given.
HandlerWriteHeader(status) ==
    /\ req.phase = "handler"
    /\ req.sent = 0
    /\ LET r == WriteHeader(req.sw, status)
       IN req' = [req EXCEPT !.sw = r.caller, !.sent = r.sent]
    /\ UNCHANGED <<config, core, feedI, feedMeta, curVal, cancelled, worker, fetched,
                   wlock, rlocks, pc, implicit, call, last, delivered, onlyNext, dest, sa,
                   errIn, codeOut, upd>>

\* The handler has returned: s.Info(..., sw.status) writes the log entry.
LogRequest ==
    /\ req.phase = "handler"
    /\ req' = [req EXCEPT !.phase = "none",
                          !.log = Append(@, [sent |-> req.sent, logged |-> req.sw.status])]
    /\ UNCHANGED <<config, core, feedI, feedMeta, curVal, cancelled, worker, fetched,
                   wlock, rlocks, pc, implicit, call, last, delivered, onlyNext, dest, sa,
                   errIn, codeOut, upd>>

\* ---------------------------------------------------------- specification

Next ==
    \/ \E t \in threads : RowsNext(t)
    \/ \E t \in threads : NextReturn(t)
    \/ \E t \in threads : NextCancelled(t)
    \/ \E t \in threads : RowsClose(t)
    \/ \E t \in threads : NextResultSet(t)
    \/ \E t \in threads : Metadata(t)
    \/ \E t \in threads : ScanBegin(t)
    \/ \E t \in threads : ScanNext(t)
    \/ \E t \in threads : ScanClose(t)
    \/ \E t \in threads : ScanRead(t)
    \/ Fetch
    \/ LateFetch
    \/ Cancel
    \/ AwaitDone

Spec ==
    Init /\ [][Next]_vars

\* A caller that only loops on Next, over a TestFeed that ends or, with
\* max = 10000, outlives the run (TestIterator, TestCancelledIterator).
InitLoop ==
    InitWith({1}, [kind : {"TestFeed"}, max : (0..MaxLen) \cup {EndlessMax}, script : {<<>>}])

NextLoop ==
    \/ \E t \in threads : RowsNext(t)
    \/ \E t \in threads : NextReturn(t)
    \/ \E t \in threads : NextCancelled(t)
    \/ Fetch
    \/ LateFetch
    \/ Cancel
    \/ AwaitDone

\* The caller keeps calling Next; a fetch that does not block completes; a Next
\* whose fetch completed or whose scope is done returns; the watcher, waiting on
\* iter.mu, gets the lock in the end (sync.RWMutex does not starve a writer).
FairLoop ==
    /\ WF_vars(\E t \in threads : RowsNext(t))
    /\ WF_vars(Fetch)
    /\ WF_vars(\E t \in threads : NextReturn(t) \/ NextCancelled(t))
    /\ SF_vars(AwaitDone)

SpecLoop ==
    InitLoop /\ [][NextLoop]_vars /\ FairLoop

\* A caller running the loop the ResultSet documentation gives for a multi-query
\* result, for rs.NextResultSet() { for rs.Next() { ... } }, over driver.Rows.
\* Where the loop stands follows from the call that returned last.
InitMulti ==
    InitWith({1}, [kind : {"rowsIterator"}, max : {0},
                   script : SeqsUpTo({"row", "EOQ", "ERR"}, MaxLen)])

\* The outer loop's condition: evaluated first, and whenever the inner loop ended.
LoopNextResultSet(t) ==
    /\ last.op = "none" \/ (last.op = "Next" /\ ~last.ret)
    /\ NextResultSet(t)

\* The inner loop's condition: evaluated when the outer one held, and after
\* each row.
LoopNext(t) ==
    /\ (last.op = "NextResultSet" /\ last.ret) \/ (last.op = "Next" /\ last.ret)
    /\ RowsNext(t)

NextMulti ==
    \/ \E t \in threads : LoopNextResultSet(t)
    \/ \E t \in threads : LoopNext(t)
    \/ \E t \in threads : NextReturn(t)
    \/ \E t \in threads : NextCancelled(t)
    \/ Fetch
    \/ LateFetch
    \/ Cancel
    \/ AwaitDone

\* The loop keeps going; the rest as in FairLoop.
FairMulti ==
    /\ WF_vars(\E t \in threads : LoopNextResultSet(t) \/ LoopNext(t))
    /\ WF_vars(Fetch)
    /\ WF_vars(\E t \in threads : NextReturn(t) \/ NextCancelled(t))
    /\ SF_vars(AwaitDone)

SpecMulti ==
    InitMulti /\ [][NextMulti]_vars /\ FairMulti

\* A caller handing a fresh result set over driver.Rows, some of whose rows do
\* not decode, to ScanAllDocs / ScanAllValues.
InitScanAll ==
    /\ InitIter({1}, [kind : {"rowsIterator"}, max : {0},
                      script : SeqsUpTo({"row", "EOQ", "ERR"}, MaxLen)])
    /\ PlainRows
    /\ badRows \in SUBSET {k \in 1..Len(script) : script[k] = "row"}
    /\ AsideIdle

NextScanAll ==
    \/ \E t \in threads : \E d \in Dests : ScanAllBegin(t, d)
    \/ \E t \in threads : ScanAllNext(t)
    \/ \E t \in threads : ScanAllStep(t)
    \/ \E t \in threads : ScanAllReturn(t)
    \/ \E t \in threads : NextReturn(t)
    \/ \E t \in threads : NextCancelled(t)
    \/ Fetch
    \/ LateFetch
    \/ Cancel
    \/ AwaitDone

SpecScanAll ==
    InitScanAll /\ [][NextScanAll]_vars

\* StatusCode applied to errors under up to MaxChain layers; no result set is
\* involved.
InitStatus ==
    /\ InitIter({1}, [kind : {"TestFeed"}, max : {0}, script : {<<>>}])
    /\ closeErr = "nil"
    /\ hasOnClose = FALSE
    /\ PlainRows
    /\ badRows = {}
    /\ dest = <<>>
    /\ sa = NoScanAll
    /\ errIn \in BaseErrors
    /\ codeOut = 0 - 1
    /\ upd = NoClient
    /\ req = NoRequest

NextStatus ==
    \/ \E w \in Wrappers : WrapError(w)
    \/ ResolveStatus

SpecStatus ==
    InitStatus /\ [][NextStatus]_vars

\* A caller iterating with Next and reading rows with the scan accessors and
\* Err, over driver.Rows whose rows may carry a row-level error, lack a
\* document or fail to decode, on a result set that may hold a local error.
InitScan ==
    /\ InitIter({1}, [kind : {"rowsIterator"}, max : {0},
                      script : SeqsUpTo({"row", "ERR"}, MaxLen)])
    /\ closeErr = "nil"
    /\ hasOnClose = FALSE
    /\ rerr \in {"nil", ErrLocal}
    /\ \E kind \in [{k \in 1..Len(script) : script[k] = "row"} -> {"ok", "bad", "error", "nodoc"}] :
        /\ badRows = {k \in DOMAIN kind : kind[k] = "bad"}
        /\ errRows = {k \in DOMAIN kind : kind[k] = "error"}
        /\ noDocRows = {k \in DOMAIN kind : kind[k] = "nodoc"}
    /\ AsideIdle

NextScan ==
    \/ \E t \in threads : RowsNext(t)
    \/ \E t \in threads : NextReturn(t)
    \/ \E t \in threads : NextCancelled(t)
    \/ \E t \in threads : RowsErrCall(t)
    \/ \E t \in threads : ScanBegin(t)
    \/ \E t \in threads : ScanNext(t)
    \/ \E t \in threads : ScanClose(t)
    \/ \E t \in threads : ScanRead(t)
    \/ Fetch
    \/ LateFetch
    \/ Cancel
    \/ AwaitDone

SpecScan ==
    InitScan /\ [][NextScan]_vars

\* Two threads sharing one result set over driver.Rows, each calling Next,
\* Close, NextResultSet, Metadata and the scan accessors as it likes.
InitTwo ==
    /\ InitWith({1, 2}, [kind : {"rowsIterator"}, max : {0},
                         script : SeqsUpTo({"row", "EOQ", "ERR"}, MaxLen - 1)])
    /\ closeErr = "nil"
    /\ hasOnClose = FALSE

NextTwo ==
    \/ \E t \in threads : RowsNext(t)
    \/ \E t \in threads : NextReturn(t)
    \/ \E t \in threads : NextCancelled(t)
    \/ \E t \in threads : RowsClose(t)
    \/ \E t \in threads : NextResultSetLock(t)
    \/ \E t \in threads : NextResultSetApply(t)
    \/ \E t \in threads : MetadataEnter(t)
    \/ \E t \in threads : MetadataRead(t)
    \/ \E t \in threads : ScanBegin(t)
    \/ \E t \in threads : ScanNext(t)
    \/ \E t \in threads : ScanClose(t)
    \/ \E t \in threads : ScanRead(t)
    \/ Fetch
    \/ LateFetch
    \/ Cancel
    \/ AwaitDone

SpecTwo ==
    InitTwo /\ [][NextTwo]_vars

\* Two threads calling Next and Close on one result set over driver.Rows.
InitRace ==
    /\ InitWith({1, 2}, [kind : {"rowsIterator"}, max : {0},
                         script : SeqsUpTo({"row", "EOQ", "ERR"}, MaxLen)])
    /\ closeErr = "nil"
    /\ hasOnClose = FALSE

NextRace ==
    \/ \E t \in threads : RowsNext(t)
    \/ \E t \in threads : NextReturn(t)
    \/ \E t \in threads : NextCancelled(t)
    \/ \E t \in threads : RowsClose(t)
    \/ Fetch
    \/ LateFetch
    \/ Cancel
    \/ AwaitDone

SpecRace ==
    InitRace /\ [][NextRace]_vars

\* A caller that calls Next and Close when it likes, or never again, under a
\* scope that may be cancelled at any moment.
NextWatch ==
    \/ \E t \in threads : RowsNext(t)
    \/ \E t \in threads : NextReturn(t)
    \/ \E t \in threads : NextCancelled(t)
    \/ \E t \in threads : RowsClose(t)
    \/ Fetch
    \/ LateFetch
    \/ Cancel
    \/ AwaitDone

\* Nothing is assumed of the caller.  A fetch that does not block completes; a
\* Next whose fetch completed or whose scope is done returns, releasing the
\* lock; the watcher, waiting on iter.mu, gets the lock in the end.
FairWatch ==
    /\ WF_vars(Fetch)
    /\ WF_vars(\E t \in threads : NextReturn(t) \/ NextCancelled(t))
    /\ SF_vars(AwaitDone)

SpecWatch ==
    Init /\ [][NextWatch]_vars /\ FairWatch

\* Client.DBUpdates on each kind of driver, and a caller using what it returned
\* with Next and Close.  The iterator runs under context.Background(), which is
\* never cancelled; onClose is c.endQuery exactly when newDBUpdates is reached.
InitUpdates ==
    /\ InitIter({1}, [kind : {"updatesIterator"}, max : {0},
                      script : SeqsUpTo({"row", "ERR"}, MaxLen)])
    /\ PlainRows
    /\ badRows = {}
    /\ dest = <<>>
    /\ sa = NoScanAll
    /\ errIn = <<>>
    /\ codeOut = 0 - 1
    /\ req = NoRequest
    /\ \E d \in Drivers : upd = [NoClient EXCEPT !.driver = d]
    /\ hasOnClose = (upd.driver = "ok")

NextUpdates ==
    \/ \E t \in threads : ClientDBUpdates(t)
    \/ \E t \in threads : UpdatesNext(t)
    \/ \E t \in threads : NextReturn(t)
    \/ \E t \in threads : UpdatesClose(t)
    \/ Fetch

SpecUpdates ==
    InitUpdates /\ [][NextUpdates]_vars

\* Requests passing through requestLogger, one after the other; no result set
\* is involved.
InitRequests ==
    /\ InitIter({1}, [kind : {"TestFeed"}, max : {0}, script : {<<>>}])
    /\ closeErr = "nil"
    /\ hasOnClose = FALSE
    /\ PlainRows
    /\ badRows = {}
    /\ AsideIdle

NextRequests ==
    \/ ServeBegin
    \/ \E status \in HandlerStatuses : HandlerWriteHeader(status)
    \/ LogRequest

SpecRequests ==
    InitRequests /\ [][NextRequests]_vars

\* ------------------------------------------------------------------ claims

\* The feed yields rows only, then end of data.
RowsOnly ==
    feedKind = "TestFeed" \/ \A k \in 1..Len(script) : script[k] = "row"

\* The number of rows of a rows-only feed.
FeedLen ==
    IF feedKind = "TestFeed" THEN feedMax ELSE Len(script)

\* The first n items of the feed, in feed order.
Items(n) ==
    [k \in 1..n |-> Item(k)]

\* C1: over a feed of N rows then end of data, with no cancellation and nothing
\* but Next called, the Nexts that returned true exposed the feed's items in feed
\* order and never more than N of them; Next returns false only after exactly N
\* trues, and Err() is then nil.
C1_NextYieldsEveryItemThenFalse ==
    (RowsOnly /\ onlyNext /\ ~cancelled) =>
        /\ Len(delivered) <= FeedLen
        /\ delivered = Items(Len(delivered))
        /\ (last.op = "Next" /\ last.ret) => last.val = Item(Len(delivered))
        /\ (last.op = "Next" /\ ~last.ret) => (delivered = Items(FeedLen) /\ Err = "nil")

C1_Witness ==
    /\ RowsOnly /\ onlyNext /\ ~cancelled
    /\ feedKind = "TestFeed" /\ feedMax = 2 /\ closeErr = ErrClose
    /\ last.op = "Next" /\ ~last.ret /\ last.why = "EOF"
    /\ delivered = <<0, 1>>

\* C4: the feed's Close runs at most once, and a Close() of an iterator that is
\* closed already changes neither the state nor Err() and does not reach the feed.
C4_CloseIdempotent ==
    /\ feedCloseCalls <= 1
    /\ (last.op = "Close" /\ last.preState = stateClosed) =>
          /\ last.postState = stateClosed
          /\ last.postErr = last.preErr
          /\ last.closes = 0

C4_Witness ==
    /\ last.op = "Close" /\ last.preState = stateClosed
    /\ feedCloseCalls = 1 /\ cancelled /\ last.preErr = ErrCtx

\* C5: Err() right after Close() is what it was right before.
C5_CloseKeepsErr ==
    last.op = "Close" => last.postErr = last.preErr

\* C6: with an onClose callback, it has run exactly once when the iterator is
\* Closed, not before, and never a second time; without one nothing runs.
C6_OnCloseExactlyOnce ==
    onCloseCalls = (IF hasOnClose /\ state = stateClosed THEN 1 ELSE 0)

C6_Witness ==
    /\ hasOnClose /\ onCloseCalls = 1
    /\ last.op = "Close" /\ last.preState = stateClosed /\ cancelled

\* C8: Metadata() in Init, RowReady or ResultSetReady returns the not-ready
\* error of status 400 and no record; it succeeds only in EOQ or Closed.
C8_MetadataNotReady ==
    last.op = "Metadata" =>
        /\ last.preState \in {stateInit, stateRowReady, stateResultSetReady} =>
              (last.err = ErrNotReady /\ last.status = 400 /\ last.meta.isNil)
        /\ last.err = "nil" => last.preState \in {stateEOQ, stateClosed}

C8_Witness ==
    /\ last.op = "Metadata" /\ last.preState = stateRowReady
    /\ last.err = ErrNotReady

\* C9: whenever Metadata() returns without error, it returns a record captured
\* from the feed, never an absent one.
C9_MetadataIsCaptured ==
    (last.op = "Metadata" /\ last.err = "nil") => ~last.meta.isNil

\* C10: NextResultSet() with a row ready returns false and leaves Err() non-nil;
\* in Init, EOQ or ResultSetReady with no error it returns true and the state is
\* ResultSetReady; closed, or with an error recorded, it returns false and
\* changes nothing.
C10_NextResultSet ==
    last.op = "NextResultSet" =>
        /\ last.preState = stateRowReady => (~last.ret /\ last.postErr # "nil")
        /\ (last.preState \in {stateInit, stateEOQ, stateResultSetReady} /\ last.preErr = "nil") =>
              (last.ret /\ last.postState = stateResultSetReady /\ last.postErr = "nil")
        /\ (last.preState = stateClosed \/ last.preErr # "nil") =>
              (~last.ret /\ last.postState = last.preState /\ last.postErr = last.preErr)

C10_Witness ==
    /\ last.op = "NextResultSet" /\ last.preState = stateRowReady
    /\ last.preErr = "nil" /\ last.postErr = ErrNRS /\ state = stateRowReady

\* C2: over a feed that keeps yielding, looped on with Next, a Next that returns
\* false does so for the cancellation and Err() is then the scope's reason; and
\* once the scope is cancelled some Next does return false with that Err().
C2_CancelEndsTheLoop ==
    /\ []((feedMax = EndlessMax /\ last.op = "Next" /\ ~last.ret) => (cancelled /\ Err = ErrCtx))
    /\ (feedMax = EndlessMax /\ cancelled) ~> (last.op = "Next" /\ ~last.ret /\ Err = ErrCtx)

C2_Witness ==
    /\ feedMax = EndlessMax /\ cancelled
    /\ last.op = "Next" /\ ~last.ret /\ last.why = "cancelled"
    /\ Err = ErrCtx /\ Len(delivered) >= 1

\* C3: once Next() has returned false for the cancellation no later Next()
\* returns true, and the fetch that was abandoned, when it ends, changes neither
\* the current value nor the state nor lastError.
C3_CancelledFetchDiscarded ==
    [][/\ (worker = "abandoned" /\ worker' = "idle") =>
            (curVal' = curVal /\ state' = state /\ lasterr' = lasterr)
       /\ lasterr = ErrCtx => ~(last' # last /\ last'.op = "Next" /\ last'.ret)]_vars

\* C7 as claimed: an accessor begun in Init makes exactly one fetch, reads the
\* first item and leaves the iterator Closed with the feed closed; begun in any
\* other state it makes no fetch and no close.
C7_OneShotAsClaimed ==
    last.op = "Scan" =>
        /\ last.preState = stateInit =>
              /\ last.fetches = 1
              /\ last.postState = stateClosed
              /\ feedCloseCalls = 1
              /\ FeedSignal(0) = "row" => last.val = Item(1)
        /\ last.preState # stateInit => (last.fetches = 0 /\ last.closes = 0)

\* C7 as amended: an accessor begun in Init leaves the iterator Closed with the
\* feed closed once, having made at most one fetch; unless the scope was
\* cancelled it made exactly one fetch and read the first item.  Begun in any
\* other state it makes no fetch and no close.
C7_OneShot ==
    last.op = "Scan" =>
        /\ last.preState = stateInit =>
              /\ last.fetches <= 1
              /\ last.postState = stateClosed
              /\ feedCloseCalls = 1
              /\ ~cancelled => last.fetches = 1
              /\ (~cancelled /\ FeedSignal(0) = "row") => last.val = Item(1)
        /\ last.preState # stateInit => (last.fetches = 0 /\ last.closes = 0)

C7_Witness ==
    /\ last.op = "Scan" /\ last.preState = stateInit /\ ~cancelled
    /\ feedKind = "rowsIterator" /\ script = <<"row", "row">>
    /\ last.fetches = 1 /\ last.val = 1 /\ last.closes = 1 /\ feedI = 1

\* The values of the rows of a driver script, in feed order.
RowItems ==
    SelectSeq([k \in 1..Len(script) |-> k], LAMBDA k : script[k] = "row")

\* The script holds rows and ends of queries only.
NoFeedError ==
    \A k \in 1..Len(script) : script[k] # "ERR"

\* The loop over the result sets has ended: NextResultSet returned false.
LoopDone ==
    last.op = "NextResultSet" /\ ~last.ret

\* C11: over a multi-query feed (rows, end-of-query signals, then end of data)
\* and with the scope alive, Next returns false at each end of query, leaving
\* state EndOfQuery, Err() nil and the feed not closed; every row Next exposes
\* is the next row of the feed, across the queries; the loop
\* for NextResultSet() { for Next() {} } ends, and when it has ended it has
\* visited every row once, in feed order, and the iterator is Closed.
C11_MultiQueryLoop ==
    /\ []((NoFeedError /\ ~cancelled) =>
            /\ (last.op = "Next" /\ last.why = "EOQ") =>
                  /\ ~last.ret
                  /\ last.postState = stateEOQ /\ state = stateEOQ
                  /\ last.postErr = "nil"
                  /\ feedCloseCalls = 0
            /\ Len(delivered) <= Len(RowItems)
            /\ delivered = SubSeq(RowItems, 1, Len(delivered))
            /\ (last.op = "Next" /\ last.ret) => last.val = RowItems[Len(delivered)]
            /\ LoopDone => (delivered = RowItems /\ state = stateClosed))
    /\ <>LoopDone

\* A loop over two queries of one row each that ended.
C11_Witness ==
    /\ script = <<"row", "EOQ", "row">>
    /\ ~cancelled
    /\ LoopDone
    /\ delivered = <<1, 3>>
    /\ state = stateClosed

\* A bulk scan of a fresh result set returned, and the scope is alive.
ScannedAll ==
    /\ last.op = "ScanAll"
    /\ last.preState = stateInit
    /\ last.preErr = "nil"
    /\ ~cancelled

\* Such a scan into an array of K >= 1 elements, over a source that had more
\* than K rows to give.
ArrayFilled ==
    /\ ScannedAll
    /\ last.bulk.kind = "array"
    /\ last.bulk.limit >= 1
    /\ Len(script) > last.bulk.limit
    /\ \A k \in 1..(last.bulk.limit + 1) : script[k] = "row"

\* C12: whenever ScanAllDocs / ScanAllValues has returned, by whichever return
\* of scanAll, the result set is closed: its state is Closed and the feed's
\* Close has run.
C12_ScanAllCloses ==
    last.op = "ScanAll" =>
        /\ last.postState = stateClosed
        /\ state = stateClosed
        /\ feedCloseCalls = 1

\* scanAll returned early, on a dest it rejects, and closed the result set.
C12_Witness ==
    /\ last.op = "ScanAll"
    /\ last.err = ErrDestKind
    /\ last.closes = 1
    /\ state = stateClosed

\* C13, as claimed: after a bulk scan into an array of K >= 1 elements from a
\* source of more than K items the result set is left open, not Closed.
C13_LeftOpenAsClaimed ==
    ArrayFilled => (last.postState # stateClosed /\ state # stateClosed)

\* C13, amended: after such a scan the result set is Closed, and it is the scan's
\* own Close at its return that closed the feed.
C13_ClosedAfterArrayFilled ==
    ArrayFilled => (last.postState = stateClosed /\ state = stateClosed /\ last.closes = 1)

\* Two elements scanned from three rows.
C13_Witness ==
    /\ ArrayFilled
    /\ last.bulk.limit = 2
    /\ script = <<"row", "row", "row">>
    /\ dest = <<1, 2>>

\* C14: a bulk scan into an array of K >= 1 elements from a source of more than
\* K items advances the result set K times and fetches K items; the (K+1)-th is
\* not fetched.
C14_ConsumesExactlyK ==
    ArrayFilled =>
        /\ last.bulk.nexts = last.bulk.limit
        /\ last.fetches = last.bulk.limit
        /\ feedI = last.bulk.limit

\* C15: when the scan function failed on some row, the bulk scan returns the
\* first such error.
C15_FirstErrorReturned ==
    (last.op = "ScanAll" /\ last.bulk.scanErr # "nil") => last.err = last.bulk.scanErr

\* C16: a bulk scan given a pointer to an array of no elements returns an error
\* and has not iterated: no Next, no scan, no fetch from the feed.
C16_ZeroLengthRejected ==
    (last.op = "ScanAll" /\ last.bulk.kind = "array" /\ Len(last.bulk.init) = 0) =>
        /\ last.err # "nil"
        /\ last.err \in {ErrZeroLen, last.preErr}
        /\ last.bulk.nexts = 0
        /\ last.bulk.scans = 0
        /\ last.fetches = 0
        /\ feedI = 0
        /\ dest = <<>>

\* The array of no elements rejected over a feed that had a row to give.
C16_Witness ==
    /\ last.op = "ScanAll"
    /\ last.bulk.kind = "array"
    /\ Len(last.bulk.init) = 0
    /\ last.err = ErrZeroLen
    /\ Len(script) >= 1
    /\ script[1] = "row"

\* A bulk scan of a fresh source of rows only, all of which decode.
AllDecoded ==
    /\ ScannedAll
    /\ \A k \in 1..Len(script) : script[k] = "row"
    /\ badRows = {}
    /\ last.bulk.kind \in {"array", "slice"}
    /\ last.bulk.kind = "array" => last.bulk.limit >= 1

\* What the destination holds after it: an array its first min(K, M) elements
\* set to the first rows in order, a slice what it held and then all M rows.
DestAsClaimed ==
    IF last.bulk.kind = "array"
    THEN dest = [k \in 1..last.bulk.limit |->
                    IF k <= Min(last.bulk.limit, Len(script)) THEN Item(k) ELSE Zero]
    ELSE dest = last.bulk.init \o Items(Len(script))

\* C17, as claimed: for a source of M rows that all decode, the destination is
\* filled as described and the bulk scan returns nil.
C17_FillsAndReturnsNilAsClaimed ==
    AllDecoded => (DestAsClaimed /\ last.err = "nil")

\* C17, amended: the destination is filled as described; the scan returns nil,
\* except that when the array was full before the source ended the scan closes
\* the open feed itself and returns the error of that Close, if any.
C17_FillsAndReturnsNil ==
    AllDecoded =>
        /\ DestAsClaimed
        /\ last.err = IF last.bulk.kind = "array" /\ last.bulk.limit < Len(script)
                       THEN closeErr ELSE "nil"

\* Two rows appended to a slice that held an element.
C17_Witness ==
    /\ AllDecoded
    /\ last.bulk.kind = "slice"
    /\ last.bulk.init = <<Old>>
    /\ dest = <<Old, 1, 2>>
    /\ last.err = "nil"

\* C18: StatusCode of an error carrying status c under any number of wrappers,
\* cause-style or unwrap-style in any order, is c.
C18_StatusUnderWrapping ==
    codeOut # 0 - 1 =>
        \A k \in 1..Len(errIn) :
            (errIn[k].kind = "status" /\ \A j \in 1..(k - 1) : errIn[j].kind \in Wrappers)
                => codeOut = errIn[k].status

\* "deeply buried": a 400 under six wrappers of alternating conventions.
C18_Witness ==
    /\ codeOut = StatusBadRequest
    /\ Len(errIn) = 8
    /\ \A j \in {1, 3, 5} : errIn[j].kind = "unwrap"
    /\ \A j \in {2, 4, 6} : errIn[j].kind = "cause"
    /\ errIn[7] = Layer("status", StatusBadRequest)

\* C19: StatusCode of nil is 0, and StatusCode of a non-nil error none of whose
\* layers exposes a status is 500, however many layers it has.
C19_NilAndUnknown ==
    codeOut # 0 - 1 =>
        /\ errIn = <<>> => codeOut = 0
        /\ (errIn # <<>> /\ \A k \in 1..Len(errIn) : errIn[k].kind # "status")
              => codeOut = StatusInternalServerError

\* A plain error under four wrappers resolved to 500.
C19_Witness ==
    /\ codeOut = StatusInternalServerError
    /\ Len(errIn) = 5
    /\ errIn[5].kind = "plain"
    /\ errIn[1].kind = "cause"
    /\ errIn[2].kind = "unwrap"

\* C20: a scan accessor called on a result set over driver.Rows once a feed
\* error or the cancellation has been recorded returns that error.
C20_ScanReturnsStickyError ==
    (feedKind = "rowsIterator" /\ last.op = "Scan" /\ last.preErr \in {ErrFeed, ErrCtx})
        => last.err = last.preErr

\* C21: ScanDoc on a row that carries a row-level error returns that error; on
\* a row that carries none and no document it returns the 400 "doc is nil"
\* error.
C21_ScanDocWithoutDoc ==
    (feedKind = "rowsIterator" /\ rerr = "nil" /\ last.op = "Scan" /\ last.acc = "ScanDoc") =>
        /\ last.val \in errRows => last.err = ErrRow
        /\ (last.val \notin errRows /\ (last.val = 0 \/ last.val \in noDocRows)) =>
              (last.err = ErrDocNil /\ last.status = StatusBadRequest)

\* ScanDoc returned "doc is nil" for a row, reached through Next, that has no
\* document.
C21_Witness ==
    /\ last.op = "Scan"
    /\ last.acc = "ScanDoc"
    /\ last.preState = stateRowReady
    /\ last.val \in noDocRows
    /\ last.err = ErrDocNil

\* C22: rows.Err returns the local error when there is one, whatever the
\* core's error; otherwise the core's error.
C22_RowsErr ==
    [][(last' # last /\ last'.op = "Err") =>
          last'.err = (IF rerr # "nil" THEN rerr ELSE lasterr)]_vars

\* Err returned the local error of a result set whose core holds the feed's.
C22_Witness ==
    /\ last.op = "Err"
    /\ rerr = ErrLocal
    /\ lasterr = ErrFeed
    /\ last.err = ErrLocal

\* A scan accessor called on a row reached through Next returned a decode
\* failure.
DecodeFailed(l) ==
    /\ l.op = "Scan"
    /\ l.preState = stateRowReady
    /\ l.err = ErrDecode

\* C23: with the scope alive, a decode failure returned by a scan accessor on a
\* row reached through Next leaves the state RowReady, Err() as it was and the
\* feed open, and the Next that follows fetches from the feed and exposes the
\* next row if the feed has one.
C23_DecodeFailureKeepsIterator ==
    /\ []((DecodeFailed(last) /\ ~cancelled) =>
            /\ last.postState = stateRowReady /\ state = stateRowReady
            /\ last.postErr = last.preErr /\ lasterr = "nil"
            /\ last.closes = 0 /\ feedCloseCalls = 0)
    /\ [][(DecodeFailed(last) /\ ~cancelled' /\ last'.op = "Next") =>
            /\ last'.fetches = 1
            /\ last'.ret = (last'.why = "row")
            /\ last'.ret => (last'.val = last.val + 1 /\ last'.postState = stateRowReady)]_vars

\* The first of two rows failed to decode and the iterator still stands on it.
C23_Witness ==
    /\ DecodeFailed(last)
    /\ ~cancelled
    /\ last.val = 1
    /\ script = <<"row", "row">>
    /\ state = stateRowReady
    /\ feedCloseCalls = 0

\* C24: whenever the state is Closed the feed has been closed, and no step of
\* any operation, of the watcher or of a fetch moves the state away from Closed.
C24_ClosedIsTerminal ==
    /\ [](state = stateClosed => feedCloseCalls = 1)
    /\ [][state = stateClosed => state' = stateClosed]_vars

\* NextResultSet was tried on a closed iterator, which stayed closed.
C24_Witness ==
    /\ last.op = "NextResultSet"
    /\ last.preState = stateClosed
    /\ state = stateClosed
    /\ feedCloseCalls = 1

\* C25: lasterr, once set, keeps its value through every step, and a Next
\* called with an error recorded or in state Closed returns false and starts no
\* fetch.
C25_LastErrIsSticky ==
    /\ [][lasterr # "nil" => lasterr' = lasterr]_vars
    /\ []((last.op = "Next" /\ (last.preErr # "nil" \/ last.preState = stateClosed)) =>
            (~last.ret /\ last.fetches = 0 /\ last.why = "noop"))

\* A Next refused on an open iterator that holds NextResultSet's error.
C25_Witness ==
    /\ last.op = "Next"
    /\ last.preErr = ErrNRS
    /\ last.preState = stateRowReady
    /\ ~last.ret
    /\ lasterr = ErrNRS

\* C26: a Next whose fetch returned an error that is neither end of data nor
\* end of query returns false, leaves that error in lasterr and the state
\* Closed, and has closed the feed; Err() returns that error from then on.
C26_FeedErrorIsTerminal ==
    (last.op = "Next" /\ last.why \notin {"row", "EOQ", "EOF", "noop", "cancelled"}) =>
        /\ ~last.ret
        /\ last.postErr = ErrFeed /\ last.postState = stateClosed
        /\ last.closes = 1
        /\ Err = ErrFeed /\ state = stateClosed /\ feedCloseCalls = 1

\* The feed failed after a row.
C26_Witness ==
    /\ last.op = "Next"
    /\ last.why = "ERR"
    /\ script = <<"row", "ERR">>
    /\ delivered = <<1>>
    /\ Err = ErrFeed

\* C27: a bulk scan whose loop ended because Next returned false with an error
\* recorded on the result set (the feed's, or the cancellation) returns that
\* error, not nil.
C27_ScanAllReturnsIterationError ==
    (last.op = "ScanAll" /\ last.preErr = "nil" /\ last.bulk.nexts >= 1
        /\ last.postErr \in {ErrFeed, ErrCtx})
        => (last.err # "nil" /\ last.err = last.postErr)

\* The threads about to assign the iterator's state or lasterr, and those
\* about to read its state or current value through a ResultSet method.
Writers ==
    {t \in threads : pc[t] \in {"nextWait", "nrs"}}

Readers ==
    {t \in threads : pc[t] \in {"meta", "accRead"}}

\* C28: a thread writing state or lasterr (Next, NextResultSet) holds the lock
\* exclusively, a thread reading state or the current value (Metadata, the scan
\* accessors) holds it at least shared, and so no write overlaps a read or
\* another write.
C28_LockDiscipline ==
    /\ \A t \in Writers : wlock = t
    /\ \A t \in Readers : t \in rlocks \/ wlock = t
    /\ Cardinality(Writers) <= 1
    /\ Writers # {} => Readers = {}

\* The threads whose Next is in flight: holding the lock, waiting for the fetch.
InFlight ==
    {t \in threads : pc[t] = "nextWait"}

\* C29: with two threads calling Next and Close, at most one Next is in flight
\* and it holds the lock; while it is, the other thread's Next and Close cannot
\* proceed and the watcher cannot close; a fetch runs only for the Next in
\* flight and starts only when no fetch is running or abandoned; the rows
\* delivered, to whichever caller, are the feed's rows in feed order, each
\* once, and a Next that met the end of data leaves none undelivered.
C29_OneTransitionInFlight ==
    /\ [](/\ Cardinality(InFlight) <= 1
          /\ \A t \in InFlight :
                /\ wlock = t
                /\ \A u \in threads \ {t} : ~ENABLED RowsNext(u) /\ ~ENABLED RowsClose(u)
                /\ ~ENABLED AwaitDone
          /\ worker \in {"running", "done"} => InFlight # {}
          /\ Len(delivered) <= Len(RowItems)
          /\ delivered = SubSeq(RowItems, 1, Len(delivered))
          /\ (last.op = "Next" /\ last.why = "EOF") => delivered = RowItems)
    /\ [][/\ \A t \in threads :
                (pc'[t] = "nextWait" /\ pc[t] # "nextWait") =>
                    (worker = "idle" /\ wlock = 0 /\ InFlight = {})
          /\ (core' # core \/ delivered' # delivered) =>
                (wlock = 0 \/ (wlock \in InFlight /\ wlock' = 0))]_vars

\* Thread 2's Next is waiting for its fetch of the second row, the first having
\* been delivered; thread 1 can neither advance nor close meanwhile.
C29_Witness ==
    /\ script = <<"row", "row">>
    /\ delivered = <<1>>
    /\ pc[1] = "idle" /\ pc[2] = "nextWait" /\ wlock = 2
    /\ worker = "running"
    /\ ~ENABLED RowsNext(1) /\ ~ENABLED RowsClose(1)

\* C30: while a scan accessor holds the shared lock for its read of the current
\* value, no step writes the current value.
C30_ReadNeverOverwritten ==
    [][(\E t \in threads : pc[t] = "accRead" /\ t \in rlocks) => curVal' = curVal]_vars

\* C31: in Closed no background activity remains: the watcher has ended and no
\* fetch is running, waiting to be collected or abandoned and still to end.
C31_NothingRunsOnceClosed ==
    state = stateClosed => (watcher = "done" /\ worker = "idle")

C33_FailedNextResultSetFrame ==
    /\ [](state = stateRowReady => (feedCloseCalls = 0 /\ onCloseCalls = 0))
    /\ [][/\ (state = stateRowReady /\ last' # last /\ last'.op = "NextResultSet") =>
                /\ ~last'.ret
                /\ lasterr' = (IF lasterr = "nil" THEN ErrNRS ELSE lasterr)
                /\ state' = stateRowReady
                /\ curVal' = curVal /\ feedI' = feedI /\ feedMeta' = feedMeta
                /\ feedCloseCalls' = feedCloseCalls /\ onCloseCalls' = onCloseCalls
                /\ worker' = worker
          /\ (state = stateRowReady /\ lasterr = ErrNRS /\ ~cancelled' /\ state' # state) =>
                /\ last' # last /\ last'.op = "Close"
                /\ state' = stateClosed /\ feedCloseCalls' = 1
                /\ lasterr' = ErrNRS]_vars

\* NextResultSet failed after the first of two rows: its error is recorded,
\* the row is still ready and the feed open.
C33_Witness ==
    /\ last.op = "NextResultSet" /\ ~last.ret
    /\ last.preState = stateRowReady /\ last.preErr = "nil"
    /\ state = stateRowReady /\ lasterr = ErrNRS
    /\ script = <<"row", "row">> /\ curVal = 1 /\ feedI = 1
    /\ feedCloseCalls = 0 /\ ~cancelled

\* C34: once Client.DBUpdates has returned, endQuery has never run if the driver
\* is no DBUpdater or startQuery failed; it has run exactly once, within the
\* call, if the driver's DBUpdates failed; on success it has not run while the
\* iterator is open and has run exactly once when it is Closed.  It never runs
\* more often than startQuery succeeded, and a closed iterator leaves every
\* successful startQuery matched.
C34_QueryCounterBalanced ==
    /\ upd.phase = "none" => (EndQueryCalls = 0 /\ upd.started = 0)
    /\ upd.phase = "returned" =>
        /\ upd.driver \in {"noupdater", "startfail"} => (EndQueryCalls = 0 /\ upd.started = 0)
        /\ upd.driver = "driverfail" => (upd.ended = 1 /\ EndQueryCalls = 1 /\ upd.started = 1)
        /\ upd.driver = "ok" =>
            /\ upd.ended = 0 /\ upd.started = 1
            /\ EndQueryCalls = (IF state = stateClosed THEN 1 ELSE 0)
        /\ EndQueryCalls <= upd.started
        /\ state = stateClosed => EndQueryCalls = upd.started

\* The feed of a successful DBUpdates ended after two updates, and a Close()
\* followed: endQuery ran once.
C34_Witness ==
    /\ upd.phase = "returned" /\ upd.driver = "ok"
    /\ script = <<"row", "row">> /\ delivered = <<1, 2>>
    /\ last.op = "Close" /\ last.preState = stateClosed
    /\ EndQueryCalls = 1 /\ upd.started = 1

\* C36: with the scope alive and both threads inside an accessor's one-shot
\* path at once (each found the state Init), one fetch at most has been made or
\* is being made, and an accessor about to read finds the first item.
C36_OneShotFetchesOnce ==
    (~cancelled /\ \A t \in threads : implicit[t]) =>
        /\ feedI + (IF worker = "running" THEN 1 ELSE 0) <= 1
        /\ \A t \in threads :
              (pc[t] = "accClose" /\ script # <<>> /\ script[1] = "row") => curVal = 1

\* C37: every log entry of a request whose handler passed a status to
\* WriteHeader records that status.
C37_LoggedStatusIsSentStatus ==
    \A k \in 1..Len(req.log) :
        req.log[k].sent # 0 => req.log[k].logged = req.log[k].sent

====
